---------------------------- MODULE Spec2Model ----------------------------
(***************************************************************************)
(* StormyDB: a RESP key-value server with an append-only file.             *)
(*                                                                         *)
(* Byte strings ([]byte, string) are TLA+ strings, one character per byte. *)
(* A Value is the Go struct Value of resp.go, a record with the five       *)
(* fields typ, str, num, bulk, array; a nil slice and an empty slice are   *)
(* both the empty sequence.                                                *)
(***************************************************************************)
EXTENDS Integers, Sequences, FiniteSets, TLC

(***************************************************************************)
(* resp.go: the wire markers and the Value struct                          *)
(***************************************************************************)
\* STRING in resp.go; the name is a TLA+ keyword.
STRING_MARK == "+"
ERROR == "-"
INTEGER == ":"
BULK == "$"
ARRAY == "*"
CRLF == "\r\n"

\* The zero byte of a freshly made []byte. No input of the model holds "@".
NUL == "@"

\* Value{}: the zero value of the struct.
ZeroValue == [typ |-> "", str |-> "", num |-> 0, bulk |-> "", array |-> <<>>]

StringValue(s) == [ZeroValue EXCEPT !.typ = "string", !.str = s]
ErrorValue(s) == [ZeroValue EXCEPT !.typ = "error", !.str = s]
IntegerValue(n) == [ZeroValue EXCEPT !.typ = "integer", !.num = n]
BulkValue(s) == [ZeroValue EXCEPT !.typ = "bulk", !.bulk = s]
NullValue == [ZeroValue EXCEPT !.typ = "null"]
ArrayValue(a) == [ZeroValue EXCEPT !.typ = "array", !.array = a]

(***************************************************************************)
(* strconv: Itoa, Atoi and ParseInt on decimal text.  Every number of the  *)
(* model has fewer than ten digits, so the 64-bit range is never left.     *)
(***************************************************************************)
Digits == "0123456789"

DigitChar(d) == SubSeq(Digits, d + 1, d + 1)

IsDigit(ch) == \E d \in 0..9 : DigitChar(d) = ch

DigitVal(ch) == CHOOSE d \in 0..9 : DigitChar(d) = ch

RECURSIVE NatText(_)
NatText(n) == IF n < 10 THEN DigitChar(n) ELSE NatText(n \div 10) \o DigitChar(n % 10)

\* strconv.Itoa
Itoa(n) == IF n < 0 THEN "-" \o NatText(-n) ELSE NatText(n)

RECURSIVE AllDigits(_)
AllDigits(s) == s = "" \/ (IsDigit(Head(s)) /\ AllDigits(Tail(s)))

RECURSIVE NatVal(_, _)
NatVal(s, acc) == IF s = "" THEN acc ELSE NatVal(Tail(s), acc * 10 + DigitVal(Head(s)))

\* strconv.ParseInt(s, 10, 64) and strconv.Atoi(s): an optional sign, then
\* one or more decimal digits; anything else is a syntax error.
ParseInt(s) ==
    LET signed == s # "" /\ Head(s) \in {"+", "-"}
        body == IF signed THEN Tail(s) ELSE s
    IN  IF body = "" \/ ~AllDigits(body)
        THEN [err |-> "syntax", num |-> 0]
        ELSE [err |-> "",
              num |-> IF signed /\ Head(s) = "-" THEN -NatVal(body, 0) ELSE NatVal(body, 0)]

Atoi(s) == ParseInt(s)

(***************************************************************************)
(* resp.go: Marshal                                                        *)
(***************************************************************************)
marshalString(v) == STRING_MARK \o v.str \o CRLF

marshalBulk(v) == BULK \o Itoa(Len(v.bulk)) \o CRLF \o v.bulk \o CRLF

marshallError(v) == ERROR \o v.str \o CRLF

marshallNull(v) == "$-1" \o CRLF

RECURSIVE Marshal(_)
RECURSIVE marshalElems(_, _)
\* the loop of marshalArray, from element i on
marshalElems(a, i) ==
    IF i > Len(a) THEN "" ELSE Marshal(a[i]) \o marshalElems(a, i + 1)

marshalArray(v) == ARRAY \o Itoa(Len(v.array)) \o CRLF \o marshalElems(v.array, 1)

\* No case for "integer": it falls to the default, the empty buffer.
Marshal(v) ==
    CASE v.typ = "array" -> marshalArray(v)
      [] v.typ = "bulk" -> marshalBulk(v)
      [] v.typ = "string" -> marshalString(v)
      [] v.typ = "null" -> marshallNull(v)
      [] v.typ = "error" -> marshallError(v)
      [] OTHER -> ""

(***************************************************************************)
(* bufio.Reader over an io.Reader, as NewRESP builds it.  buf holds the    *)
(* bytes fetched and not yet consumed (b.buf[b.r:b.w]), src the bytes the  *)
(* underlying reader has not handed over yet.  A fetch takes what the      *)
(* source has, at most BufSize bytes.                                      *)
(***************************************************************************)
\* bufio's default buffer size, the one bufio.NewReader uses.
BufSize == 4096

Min(a, b) == IF a < b THEN a ELSE b

\* F applied to the value of x, which is computed once.
With(x, F(_)) == CHOOSE y \in {F(v) : v \in {x}} : TRUE

NewReader(bytes) == [buf |-> "", src |-> bytes]

\* one Read of the underlying reader into a buffer of n bytes
fetch(rd, n) ==
    With(Min(n, Len(rd.src)), LAMBDA k :
        [buf |-> rd.buf \o SubSeq(rd.src, 1, k), src |-> SubSeq(rd.src, k + 1, Len(rd.src))])

\* bufio.Reader.ReadByte: fills the empty buffer, io.EOF when nothing is left
ReadByte(rd) ==
    With(IF rd.buf = "" THEN fetch(rd, BufSize) ELSE rd, LAMBDA f :
        IF f.buf = ""
        THEN [err |-> "EOF", b |-> "", rd |-> f]
        ELSE [err |-> "", b |-> Head(f.buf), rd |-> [f EXCEPT !.buf = Tail(f.buf)]])

\* k zero bytes
RECURSIVE Zeros(_)
Zeros(k) ==
    IF k <= 0 THEN ""
    ELSE With(Zeros(k \div 2), LAMBDA h : IF k % 2 = 1 THEN h \o h \o NUL ELSE h \o h)

\* bufio.Reader.Read(p) with len(p) = n > 0: with an empty buffer it reads a
\* large p straight from the source and otherwise fetches once; then it copies
\* what is buffered, at most n bytes, and returns.  got is p[:n'].
BufRead(rd, n) ==
    With(IF rd.buf # "" THEN rd
         ELSE IF n >= BufSize THEN fetch(rd, n) ELSE fetch(rd, BufSize), LAMBDA f :
        With(Min(n, Len(f.buf)), LAMBDA k :
            [got |-> SubSeq(f.buf, 1, k),
             rd |-> [f EXCEPT !.buf = SubSeq(f.buf, k + 1, Len(f.buf))]]))

(***************************************************************************)
(* resp.go: the decoder.  A result is [err, val, rd]: err is "" for nil,   *)
(* "EOF" for io.EOF, "syntax" for strconv's error and "panic" for a        *)
(* run-time panic; rd is the reader afterwards.                            *)
(***************************************************************************)
\* rd after n calls of ReadByte that all gave a byte: bytes leave the buffer,
\* and the empty buffer is refilled with BufSize bytes of the source at a time.
Advance(rd, n) ==
    IF n <= Len(rd.buf) THEN [rd EXCEPT !.buf = SubSeq(rd.buf, n + 1, Len(rd.buf))]
    ELSE With(n - Len(rd.buf), LAMBDA q :
             With(Min(((q + BufSize - 1) \div BufSize) * BufSize, Len(rd.src)), LAMBDA got :
                 [buf |-> SubSeq(rd.src, q + 1, got),
                  src |-> SubSeq(rd.src, got + 1, Len(rd.src))]))

RECURSIVE lineEnd(_, _)
\* The loop of readLine over the bytes all that ReadByte will give, at byte
\* i: the number of bytes read when the loop breaks, which is the first
\* length >= 2 whose byte before the last is '\r'; 0 when the bytes run out
\* first.
lineEnd(all, i) ==
    IF i > Len(all) THEN 0
    ELSE IF i >= 2 /\ SubSeq(all, i - 1, i - 1) = "\r" THEN i
    ELSE lineEnd(all, i + 1)

\* readLine: ReadByte after ReadByte until the break; io.EOF from ReadByte
\* gives up the line.
readLine(rd) ==
    With(rd.buf \o rd.src, LAMBDA all :
        With(lineEnd(all, 1), LAMBDA n :
            IF n = 0 THEN [err |-> "EOF", line |-> "", rd |-> [buf |-> "", src |-> ""]]
            ELSE [err |-> "", line |-> SubSeq(all, 1, n - 2), rd |-> Advance(rd, n)]))

readInteger(rd) ==
    With(readLine(rd), LAMBDA ln :
        With(ParseInt(ln.line), LAMBDA p :
            IF ln.err # "" THEN [err |-> ln.err, x |-> 0, rd |-> ln.rd]
            ELSE IF p.err # "" THEN [err |-> p.err, x |-> 0, rd |-> ln.rd]
            ELSE [err |-> "", x |-> p.num, rd |-> ln.rd]))

\* readBulk after its readInteger gave len = n with a nil error.  The count
\* and the error of reader.Read, and the error of the closing readLine, are
\* dropped: the bytes Read did not fill stay zero.
readPayload(rd, n) ==
    With(IF n > 0 THEN BufRead(rd, n) ELSE [got |-> "", rd |-> rd], LAMBDA got :
        [err |-> "",
         val |-> BulkValue(got.got \o Zeros(n - Len(got.got))),
         rd |-> readLine(got.rd).rd])

\* make([]byte, len) panics on a negative len.
readBulk(rd) ==
    With(readInteger(rd), LAMBDA n :
        IF n.err # "" THEN [err |-> n.err, val |-> BulkValue(""), rd |-> n.rd]
        ELSE IF n.x < 0 THEN [err |-> "panic", val |-> BulkValue(""), rd |-> n.rd]
        ELSE readPayload(n.rd, n.x))

RECURSIVE Read(_)
RECURSIVE readElems(_, _, _)
\* the loop of readArray: the elements read so far and those still to read
readElems(rd, todo, acc) ==
    IF todo <= 0 THEN [err |-> "", val |-> ArrayValue(acc), rd |-> rd]
    ELSE With(Read(rd), LAMBDA e :
             IF e.err # "" THEN [err |-> e.err, val |-> ArrayValue(acc), rd |-> e.rd]
             ELSE With(Append(acc, e.val), LAMBDA acc2 : readElems(e.rd, todo - 1, acc2)))

readArray(rd) ==
    With(readInteger(rd), LAMBDA n :
        IF n.err # "" THEN [err |-> n.err, val |-> ArrayValue(<<>>), rd |-> n.rd]
        ELSE readElems(n.rd, n.x, <<>>))

\* RESP.Read: any marker other than '*' and '$' gives Value{} and a nil error.
Read(rd) ==
    With(ReadByte(rd), LAMBDA t :
        IF t.err # "" THEN [err |-> t.err, val |-> ZeroValue, rd |-> t.rd]
        ELSE CASE t.b = ARRAY -> readArray(t.rd)
               [] t.b = BULK -> readBulk(t.rd)
               [] OTHER -> [err |-> "", val |-> ZeroValue, rd |-> t.rd])

(***************************************************************************)
(* handlers.go: the two key spaces and the handlers.  A key space is a     *)
(* function from the keys present to their values.  Each handler is given  *)
(* here as the code runs it with no other goroutine in between: it maps    *)
(* the key spaces S = [SETs, HSETs] and the arguments to the key spaces    *)
(* afterwards and the Value returned.                                      *)
(***************************************************************************)
EmptyMap == << >>

\* m[k] = v
Put(m, k, v) == (k :> v) @@ m

RECURSIVE restrict(_, _)
\* the entries of m under the keys D
restrict(m, D) ==
    IF D = {} THEN EmptyMap
    ELSE With(CHOOSE x \in D : TRUE, LAMBDA x : (x :> m[x]) @@ restrict(m, D \ {x}))

\* delete(m, k)
Delete(m, k) == restrict(m, (DOMAIN m) \ {k})

ArityError(name) == ErrorValue("ERR wrong number of arguments for '" \o name \o "' command")

handlePing(S, args) ==
    [S |-> S,
     res |-> IF Len(args) = 0 THEN StringValue("PONG") ELSE StringValue(args[1].bulk)]

\* A handleSet that takes two arguments or more.
handleSetLoose(S, args) ==
    IF Len(args) < 2 THEN [S |-> S, res |-> ArityError("set")]
    ELSE [S |-> [S EXCEPT !.SETs = Put(@, args[1].bulk, args[2].bulk)],
          res |-> StringValue("OK")]

handleSet(S, args) ==
    IF Len(args) # 2 THEN [S |-> S, res |-> ArityError("set")]
    ELSE [S |-> [S EXCEPT !.SETs = Put(@, args[1].bulk, args[2].bulk)],
          res |-> StringValue("OK")]

handleGet(S, args) ==
    IF Len(args) # 1 THEN [S |-> S, res |-> ArityError("get")]
    ELSE [S |-> S,
          res |-> IF args[1].bulk \in DOMAIN S.SETs
                  THEN BulkValue(S.SETs[args[1].bulk]) ELSE NullValue]

RECURSIVE delLoop(_, _, _, _)
\* the loop of handleDel from argument i on
delLoop(m, args, i, deletedCount) ==
    IF i > Len(args) THEN [m |-> m, n |-> deletedCount]
    ELSE IF args[i].bulk \in DOMAIN m
         THEN delLoop(Delete(m, args[i].bulk), args, i + 1, deletedCount + 1)
         ELSE delLoop(m, args, i + 1, deletedCount)

handleDel(S, args) ==
    IF Len(args) = 0 THEN [S |-> S, res |-> ArityError("del")]
    ELSE LET d == delLoop(S.SETs, args, 1, 0)
         IN  [S |-> [S EXCEPT !.SETs = d.m], res |-> IntegerValue(d.n)]

handleExists(S, args) ==
    IF Len(args) = 0 THEN [S |-> S, res |-> ArityError("exists")]
    ELSE [S |-> S,
          res |-> IntegerValue(Cardinality({i \in 1..Len(args) : args[i].bulk \in DOMAIN S.SETs}))]

\* handleIncr after its arity check, in the two halves of its critical
\* section: the lookup of the key, and everything after it.
incrLookup(m, key) ==
    IF key \in DOMAIN m THEN [ok |-> TRUE, value |-> m[key]] ELSE [ok |-> FALSE, value |-> ""]

\* An incrStore that starts afresh from a value that is no integer.
incrStoreReset(m, key, got) ==
    IF ~got.ok \/ Atoi(got.value).err # ""
    THEN [m |-> Put(m, key, "1"), res |-> IntegerValue(1)]
    ELSE [m |-> Put(m, key, Itoa(Atoi(got.value).num + 1)),
          res |-> IntegerValue(Atoi(got.value).num + 1)]

incrStore(m, key, got) ==
    LET a == Atoi(got.value)
    IN  IF ~got.ok THEN [m |-> Put(m, key, "1"), res |-> IntegerValue(1)]
        ELSE IF a.err # "" THEN [m |-> m, res |-> ErrorValue("ERR value is not an integer")]
        ELSE [m |-> Put(m, key, Itoa(a.num + 1)), res |-> IntegerValue(a.num + 1)]

handleIncr(S, args) ==
    IF Len(args) # 1 THEN [S |-> S, res |-> ArityError("incr")]
    ELSE LET st == incrStore(S.SETs, args[1].bulk, incrLookup(S.SETs, args[1].bulk))
         IN  [S |-> [S EXCEPT !.SETs = st.m], res |-> st.res]

\* A handleHSet that makes the hash anew on every call.
handleHSetFresh(S, args) ==
    IF Len(args) # 3 THEN [S |-> S, res |-> ArityError("hset")]
    ELSE [S |-> [S EXCEPT !.HSETs = Put(@, args[1].bulk, Put(EmptyMap, args[2].bulk, args[3].bulk))],
          res |-> StringValue("OK")]

handleHSet(S, args) ==
    IF Len(args) # 3 THEN [S |-> S, res |-> ArityError("hset")]
    ELSE LET hash == args[1].bulk
             inner == IF hash \in DOMAIN S.HSETs THEN S.HSETs[hash] ELSE EmptyMap
         IN  [S |-> [S EXCEPT !.HSETs = Put(@, hash, Put(inner, args[2].bulk, args[3].bulk))],
              res |-> StringValue("OK")]

handleHGet(S, args) ==
    IF Len(args) # 2 THEN [S |-> S, res |-> ArityError("hget")]
    ELSE LET hash == args[1].bulk
             key == args[2].bulk
         IN  [S |-> S,
              res |-> IF hash \in DOMAIN S.HSETs /\ key \in DOMAIN S.HSETs[hash]
                      THEN BulkValue(S.HSETs[hash][key]) ELSE NullValue]

\* handleHGetAll up to its range loop: the arity check and the absent hash.
\* The loop is taken round by round in HGetAllIter; it leaves the key spaces
\* alone, and res here holds no pair of it.
handleHGetAll(S, args) ==
    IF Len(args) # 1 THEN [S |-> S, res |-> ArityError("hgetall")]
    ELSE [S |-> S,
          res |-> IF args[1].bulk \in DOMAIN S.HSETs THEN ArrayValue(<<>>) ELSE NullValue]

\* The commands of the Handlers map.
Commands == {"PING", "SET", "GET", "DEL", "EXISTS", "INCR", "HSET", "HGET", "HGETALL"}

\* The arity check a handler starts with.
ArityOk(command, args) ==
    CASE command = "PING" -> TRUE
      [] command = "SET" -> Len(args) = 2
      [] command \in {"GET", "INCR", "HGETALL"} -> Len(args) = 1
      [] command \in {"DEL", "EXISTS"} -> Len(args) # 0
      [] command = "HSET" -> Len(args) = 3
      [] command = "HGET" -> Len(args) = 2

\* strings.ToUpper
LowerCase == "abcdefghijklmnopqrstuvwxyz"
UpperCase == "ABCDEFGHIJKLMNOPQRSTUVWXYZ"

UpperChar(ch) ==
    IF \E i \in 1..26 : SubSeq(LowerCase, i, i) = ch
    THEN LET i == CHOOSE i \in 1..26 : SubSeq(LowerCase, i, i) = ch IN SubSeq(UpperCase, i, i)
    ELSE ch

RECURSIVE ToUpper(_)
ToUpper(s) == IF s = "" THEN "" ELSE UpperChar(Head(s)) \o ToUpper(Tail(s))

(***************************************************************************)
(* main.go: the replay callback and the loop of AOF.Read, run at startup   *)
(* before any connection is accepted.                                      *)
(***************************************************************************)
\* Handlers[command](args): the key spaces after the call and its result.
Handle(command, S, args) ==
    CASE command = "PING" -> handlePing(S, args)
      [] command = "SET" -> handleSet(S, args)
      [] command = "GET" -> handleGet(S, args)
      [] command = "DEL" -> handleDel(S, args)
      [] command = "EXISTS" -> handleExists(S, args)
      [] command = "INCR" -> handleIncr(S, args)
      [] command = "HSET" -> handleHSet(S, args)
      [] command = "HGET" -> handleHGet(S, args)
      [] command = "HGETALL" -> handleHGetAll(S, args)
      [] OTHER -> [S |-> S, res |-> NullValue]

\* value.array[1:]
Args(value) == SubSeq(value.array, 2, Len(value.array))

\* The callback main passes to aof.Read.  value.array[0] panics on a value
\* with no elements; an unknown command is reported and skipped.
replayOne(S, value) ==
    IF Len(value.array) = 0 THEN [S |-> S, err |-> "panic"]
    ELSE LET command == ToUpper(value.array[1].bulk)
         IN  IF command \notin Commands THEN [S |-> S, err |-> ""]
             ELSE [S |-> Handle(command, S, Args(value)).S, err |-> ""]

RECURSIVE replayLoop(_, _)
\* The loop of AOF.Read from reader rd on: io.EOF ends it with a nil error,
\* any other error is returned.
replayLoop(rd, S) ==
    With(Read(rd), LAMBDA r :
        IF r.err = "EOF" THEN [S |-> S, err |-> "", rd |-> r.rd]
        ELSE IF r.err # "" THEN [S |-> S, err |-> r.err, rd |-> r.rd]
        ELSE With(replayOne(S, r.val), LAMBDA one :
                 IF one.err # "" THEN [S |-> S, err |-> one.err, rd |-> r.rd]
                 ELSE replayLoop(r.rd, one.S)))

EmptySpaces == [SETs |-> EmptyMap, HSETs |-> EmptyMap]

\* AOF.Read over a file holding bytes, from empty key spaces.
Replay(bytes) == replayLoop(NewReader(bytes), EmptySpaces)

(***************************************************************************)
(* The server: main, one handleClient goroutine per connection, the two    *)
(* key spaces with their RWMutexes, and the AOF with its Mutex.            *)
(***************************************************************************)
\* Connections the model accepts, requests a client sends on one connection,
\* and failures of file.Write the disk may produce.
NumConns == 2
MaxReq == 2
MaxFail == 1
\* Length of the long SET value: record and value fit one buffer, two records do not.
BigLen == 4060

Conns == 1..NumConns

RECURSIVE Xs(_)
\* k bytes 'x'
Xs(k) ==
    IF k <= 0 THEN ""
    ELSE With(Xs(k \div 2), LAMBDA h : IF k % 2 = 1 THEN h \o h \o "x" ELSE h \o h)

\* A request as a client encodes it: an array of bulk strings.
Request(parts) == Marshal(ArrayValue([i \in 1..Len(parts) |-> BulkValue(parts[i])]))

\* What clients send.  A workload names the connections that send, the
\* messages they choose from, and the number of times file.Write fails;
\* every message is sent whole.
AllMsgs ==
    { Request(<<"PING">>), Request(<<"SET", "k", "a">>), Request(<<"set", "k">>),
      Request(<<"GET", "k">>), Request(<<"DEL", "k", "j">>), Request(<<"EXISTS", "k">>),
      Request(<<"INCR", "k">>), Request(<<"HSET", "h", "f", "a">>),
      Request(<<"HGET", "h", "f">>), Request(<<"HGETALL", "h">>),
      Request(<<"FOO">>), Request(<<"SET", "k", Xs(BigLen)>>),
      "$1\r\nx\r\n", "*0\r\n", "+OK\r\n", "$-1\r\n", "*x\r\n" }

Workloads ==
    { [conns |-> {1}, faults |-> MaxFail, msgs |-> AllMsgs],
      [conns |-> Conns, faults |-> 0, msgs |-> {Request(<<"INCR", "k">>)}],
      [conns |-> {1, 2}, faults |-> 0,
       msgs |-> {Request(<<"SET", "k", "a">>), Request(<<"DEL", "k">>)}],
      [conns |-> {1, 2}, faults |-> 0,
       msgs |-> {Request(<<"HSET", "h", "f", "a">>), Request(<<"HSET", "h", "g", "b">>),
                 Request(<<"HGETALL", "h">>)}] }

VARIABLES
    SETs,      \* handlers.go: the scalar space
    HSETs,     \* handlers.go: the hash space
    SETsMu,    \* its RWMutex: [w: the writer holding it or 0, r: the readers holding it]
    HSETsMu,
    aof,       \* aof.go: [file: the bytes of database.aof, pos: the offset of the
               \* open file, mu: the goroutine holding aof.mu or 0, closed: the
               \* file was closed]
    mainPc,    \* main: "start" before aof.Read, "replay" inside it, "accept" in
               \* the accept loop; when the replay callback panics, "unwind"
               \* before the deferred aof.Close, "closing" inside it, "closed"
               \* after it, "exit" when the process has died of the panic
    crashed,   \* the process died of a panic or a fatal run-time error
    load,      \* the workload of this run
    pc,        \* handleClient of each connection: where it stands
    reader,    \* its RESP reader over the connection
    value,     \* the request it is serving
    local,     \* the locals of the handler it is in
    wire,      \* the calls of writer.Write it made: [val, bytes, req], req the
               \* number of the request answered
    reqs,      \* history: the requests it decoded, in order
    sent,      \* history: the number of messages its client sent
    appends,   \* history: the successful aof.Write calls, [conn, req], in order
    fails,     \* history: the number of failed file.Write calls
    flushPc,   \* the goroutine of NewAOF: "sleep" in time.Sleep or waiting for
               \* aof.mu, "sync" holding it before file.Sync
    codecIn,   \* the codec on its own: the Value or the bytes handed to it
    codecOut   \* and what Marshal and Read made of them

server == <<SETs, HSETs, SETsMu, HSETsMu, aof, mainPc, crashed, load, pc, reader,
            value, local, wire, reqs, sent, appends, fails, flushPc>>

vars == <<server, codecIn, codecOut>>

FreeMu == [w |-> 0, r |-> {}]
NoCodec == [op |-> "none"]
NoLocal == [got |-> [ok |-> FALSE, value |-> ""], first |-> {}, seen |-> {}, acc |-> <<>>]

InitServer ==
    /\ SETs = EmptyMap
    /\ HSETs = EmptyMap
    /\ SETsMu = FreeMu
    /\ HSETsMu = FreeMu
    /\ aof = [file |-> "", pos |-> 0, mu |-> 0, closed |-> FALSE]
    /\ mainPc = "start"
    /\ flushPc = "sleep"
    /\ crashed = FALSE
    /\ load \in Workloads
    /\ pc = [c \in Conns |-> "read"]
    /\ reader = [c \in Conns |-> NewReader("")]
    /\ value = [c \in Conns |-> ZeroValue]
    /\ local = [c \in Conns |-> NoLocal]
    /\ wire = [c \in Conns |-> <<>>]
    /\ reqs = [c \in Conns |-> <<>>]
    /\ sent = [c \in Conns |-> 0]
    /\ appends = <<>>
    /\ fails = 0

Init ==
    /\ InitServer
    /\ codecIn = NoCodec
    /\ codecOut = NoCodec

Spaces == [SETs |-> SETs, HSETs |-> HSETs]

\* The goroutines that take aof.mu besides the connections' handleClient:
\* the one NewAOF starts and main.
Flusher == NumConns + 1
Main == NumConns + 2

\* An aof.mu.Lock() that never waits.
AofLockNeverWaits(mu) == TRUE

\* sync.Mutex: Lock needs no holder.
AofCanLock(mu) == mu = 0

\* AOF.Read line 66, called by main at line 29: aof.mu.Lock()
AofReadLock ==
    /\ mainPc = "start"
    /\ ~crashed
    /\ AofCanLock(aof.mu)
    /\ aof' = [aof EXCEPT !.mu = Main]
    /\ mainPc' = "replay"
    /\ UNCHANGED <<SETs, HSETs, SETsMu, HSETsMu, crashed, load, pc, reader, value, local,
                   wire, reqs, sent, appends, fails, flushPc, codecIn,
                   codecOut>>

\* A replay whose callback also appends what it applies, as handleClient
\* does for a write command.
StartupRelogging ==
    /\ mainPc = "replay"
    /\ ~crashed
    /\ \E r \in {Replay(aof.file)} :
           /\ SETs' = r.S.SETs
           /\ HSETs' = r.S.HSETs
           /\ aof' = [aof EXCEPT !.file = @ \o SubSeq(@, 1, Len(@) - Len(r.rd.buf) - Len(r.rd.src)),
                                 !.pos = Len(aof.file) - Len(r.rd.src),
                                 !.mu = 0]
           /\ mainPc' = IF r.err = "panic" THEN "unwind" ELSE "accept"
    /\ UNCHANGED <<SETsMu, HSETsMu, crashed, load, pc, reader, value, local, wire, reqs,
                   sent, appends, fails, flushPc, codecIn,
                   codecOut>>

\* main, lines 29-41, inside AOF.Read lines 69-89: the file is replayed
\* into the key spaces, and the deferred Unlock of line 67 runs.  The error
\* of aof.Read is dropped and main goes on to the accept loop; a panic of
\* the callback unwinds main.  The file offset ends where the reader's last
\* fetch left it.
Startup ==
    /\ mainPc = "replay"
    /\ ~crashed
    /\ \E r \in {Replay(aof.file)} :
           /\ SETs' = r.S.SETs
           /\ HSETs' = r.S.HSETs
           /\ aof' = [aof EXCEPT !.pos = Len(aof.file) - Len(r.rd.src), !.mu = 0]
           /\ mainPc' = IF r.err = "panic" THEN "unwind" ELSE "accept"
    /\ UNCHANGED <<SETsMu, HSETsMu, crashed, load, pc, reader, value, local, wire, reqs,
                   sent, appends, fails, flushPc, codecIn,
                   codecOut>>

\* The panic unwinding main runs the deferred call of line 26: AOF.Close
\* line 45, aof.mu.Lock()
CloseLock ==
    /\ mainPc = "unwind"
    /\ ~crashed
    /\ AofCanLock(aof.mu)
    /\ aof' = [aof EXCEPT !.mu = Main]
    /\ mainPc' = "closing"
    /\ UNCHANGED <<SETs, HSETs, SETsMu, HSETsMu, crashed, load, pc, reader, value, local,
                   wire, reqs, sent, appends, fails, flushPc, codecIn,
                   codecOut>>

\* AOF.Close lines 46-48: file.Close() and the deferred Unlock.  Nothing
\* here tells the goroutine of NewAOF to stop.
Close ==
    /\ mainPc = "closing"
    /\ ~crashed
    /\ aof' = [aof EXCEPT !.closed = TRUE, !.mu = 0]
    /\ mainPc' = "closed"
    /\ UNCHANGED <<SETs, HSETs, SETsMu, HSETsMu, crashed, load, pc, reader, value, local,
                   wire, reqs, sent, appends, fails, flushPc, codecIn,
                   codecOut>>

\* The deferred calls are done: the run time reports the panic and the
\* process exits.
Exit ==
    /\ mainPc = "closed"
    /\ ~crashed
    /\ crashed' = TRUE
    /\ mainPc' = "exit"
    /\ UNCHANGED <<SETs, HSETs, SETsMu, HSETsMu, aof, load, pc, reader, value, local,
                   wire, reqs, sent, appends, fails, flushPc, codecIn,
                   codecOut>>

\* The goroutine of NewAOF, lines 33-34: time.Sleep is over, aof.mu.Lock()
FlushLock ==
    /\ ~crashed
    /\ flushPc = "sleep"
    /\ AofCanLock(aof.mu)
    /\ aof' = [aof EXCEPT !.mu = Flusher]
    /\ flushPc' = "sync"
    /\ UNCHANGED <<SETs, HSETs, SETsMu, HSETsMu, mainPc, crashed, load, pc, reader, value,
                   local, wire, reqs, sent, appends, fails, codecIn,
                   codecOut>>

\* lines 35-36: file.Sync(), whose error is dropped, and aof.mu.Unlock();
\* the loop goes back to time.Sleep for as long as the process lives.
FlushSync ==
    /\ ~crashed
    /\ flushPc = "sync"
    /\ aof' = [aof EXCEPT !.mu = 0]
    /\ flushPc' = "sleep"
    /\ UNCHANGED <<SETs, HSETs, SETsMu, HSETsMu, mainPc, crashed, load, pc, reader, value,
                   local, wire, reqs, sent, appends, fails, codecIn,
                   codecOut>>

\* A client writes one message to its connection.
ClientSend(c) ==
    /\ ~crashed
    /\ c \in load.conns
    /\ sent[c] < MaxReq
    /\ pc[c] # "closed"
    /\ \E m \in load.msgs : reader' = [reader EXCEPT ![c].src = @ \o m]
    /\ sent' = [sent EXCEPT ![c] = @ + 1]
    /\ UNCHANGED <<SETs, HSETs, SETsMu, HSETsMu, aof, mainPc, crashed, load, pc, value,
                   local, wire, reqs, appends, fails, flushPc, codecIn,
                   codecOut>>

\* writer.Write(v) on connection c, answering its request number n
Written(c, v, n) == Append(wire[c], [val |-> v, bytes |-> Marshal(v), req |-> n])

\* A line 91 that leaves INCR out.
WritesWithoutIncr(command) == command \in {"SET", "DEL", "HSET"}

\* main.go line 91: the commands persisted to the AOF
IsWriteCommand(command) == command \in {"SET", "DEL", "HSET", "INCR"}

\* The mutex a handler takes and how: the exclusive Lock or the shared RLock.
UsesSETs(command) == command \in {"SET", "GET", "DEL", "EXISTS", "INCR"}
LocksExclusive(command) == command \in {"SET", "DEL", "INCR", "HSET"}

Command(v) == ToUpper(v.array[1].bulk)

\* main.go lines 101-102: handler(args) is called for request v, number n, of
\* connection c.  PING, and a handler whose arity check fails, return at once
\* and the result is written; the others go on to their mutex.
Invoke(c, v, n) ==
    IF Command(v) = "PING" \/ ~ArityOk(Command(v), Args(v))
    THEN /\ pc' = [pc EXCEPT ![c] = "read"]
         /\ wire' = [wire EXCEPT ![c] = Written(c, Handle(Command(v), Spaces, Args(v)).res, n)]
    ELSE /\ pc' = [pc EXCEPT ![c] = "lock"]
         /\ wire' = wire

\* handleClient lines 65-88 and 91: one request is decoded.  A decoding
\* error ends the goroutine and closes the connection, a panic ends the
\* process; a request that is no array or an empty one, and an unknown
\* command, are answered with an error; a write command goes to the AOF.
ReadRequest(c) ==
    /\ mainPc = "accept"
    /\ ~crashed
    /\ pc[c] = "read"
    /\ reader[c].buf \o reader[c].src # ""
    /\ \E r \in {Read(reader[c])} :
       LET n == Len(reqs[c]) + 1
           answer(v) == /\ wire' = [wire EXCEPT ![c] = Written(c, v, n)]
                        /\ pc' = pc
       IN  /\ r.err # "EOF"
           /\ reader' = [reader EXCEPT ![c] = r.rd]
           /\ crashed' = (r.err = "panic")
           /\ IF r.err # ""
              THEN /\ pc' = [pc EXCEPT ![c] = IF r.err = "panic" THEN @ ELSE "closed"]
                   /\ UNCHANGED <<value, wire, reqs>>
              ELSE /\ value' = [value EXCEPT ![c] = r.val]
                   /\ reqs' = [reqs EXCEPT ![c] = Append(@, r.val)]
                   /\ IF r.val.typ # "array" \/ Len(r.val.array) = 0
                      THEN answer(ErrorValue("ERR invalid request format"))
                      ELSE IF Command(r.val) \notin Commands
                      THEN answer(ErrorValue("ERR unknown command: " \o Command(r.val)))
                      ELSE IF IsWriteCommand(Command(r.val))
                      THEN /\ pc' = [pc EXCEPT ![c] = "aof"]
                           /\ wire' = wire
                      ELSE Invoke(c, r.val, n)
    /\ UNCHANGED <<SETs, HSETs, SETsMu, HSETsMu, aof, mainPc, load, local, sent,
                   appends, fails, flushPc, codecIn,
                   codecOut>>

\* AOF.Write line 53: aof.mu.Lock()
AofLock(c) ==
    /\ ~crashed
    /\ pc[c] = "aof"
    /\ AofCanLock(aof.mu)
    /\ aof' = [aof EXCEPT !.mu = c]
    /\ pc' = [pc EXCEPT ![c] = "aof_write"]
    /\ UNCHANGED <<SETs, HSETs, SETsMu, HSETsMu, mainPc, crashed, load, reader, value,
                   local, wire, reqs, sent, appends, fails, flushPc, codecIn,
                   codecOut>>

\* file.Write(b) on a file opened without O_APPEND: the first k bytes of b
\* go to the file at its offset.
FileWrite(f, b, k) ==
    [f EXCEPT !.file = SubSeq(f.file, 1, f.pos) \o SubSeq(b, 1, k)
                         \o SubSeq(f.file, f.pos + k + 1, Len(f.file)),
              !.pos = f.pos + k]

\* AOF.Write lines 56-61 with a nil error, then handleClient line 101.
AofWriteOk(c) ==
    /\ ~crashed
    /\ pc[c] = "aof_write"
    /\ \E b \in {Marshal(value[c])} :
           aof' = [FileWrite(aof, b, Len(b)) EXCEPT !.mu = 0]
    /\ appends' = Append(appends, [conn |-> c, req |-> Len(reqs[c])])
    /\ Invoke(c, value[c], Len(reqs[c]))
    /\ UNCHANGED <<SETs, HSETs, SETsMu, HSETsMu, mainPc, crashed, load, reader, value,
                   local, reqs, sent, fails, flushPc, codecIn,
                   codecOut>>

\* A handleClient without lines 93-97: the error of aof.Write is dropped and
\* the handler is called all the same.
AofWriteFailIgnored(c) ==
    /\ ~crashed
    /\ pc[c] = "aof_write"
    /\ fails < load.faults
    /\ \E k \in {0, 1} : aof' = [FileWrite(aof, Marshal(value[c]), k) EXCEPT !.mu = 0]
    /\ fails' = fails + 1
    /\ Invoke(c, value[c], Len(reqs[c]))
    /\ UNCHANGED <<SETs, HSETs, SETsMu, HSETsMu, mainPc, crashed, load, reader, value,
                   local, reqs, sent, appends, flushPc, codecIn,
                   codecOut>>

\* AOF.Write with an error of file.Write, which may have written part of
\* the record; then handleClient lines 93-97.
AofWriteFail(c) ==
    /\ ~crashed
    /\ pc[c] = "aof_write"
    /\ fails < load.faults
    /\ \E k \in {0, 1} : aof' = [FileWrite(aof, Marshal(value[c]), k) EXCEPT !.mu = 0]
    /\ fails' = fails + 1
    /\ wire' = [wire EXCEPT ![c] = Written(c, ErrorValue("ERR internal server error"),
                                           Len(reqs[c]))]
    /\ pc' = [pc EXCEPT ![c] = "read"]
    /\ UNCHANGED <<SETs, HSETs, SETsMu, HSETsMu, mainPc, crashed, load, reader, value,
                   local, reqs, sent, appends, flushPc, codecIn,
                   codecOut>>

(***************************************************************************)
(* handlers.go: a handler past its arity check, step by step.  A step is   *)
(* the code between two points where another goroutine can come in: the    *)
(* taking of the mutex, and the critical section with its unlock and the   *)
(* writer.Write of the result.  handleIncr's critical section is taken in  *)
(* its two halves, handleHGetAll's loop runs after its RUnlock.            *)
(***************************************************************************)
\* A Lock that never waits.
LockNeverWaits(mu) == TRUE

\* sync.RWMutex: Lock needs no holder at all, RLock no writer.
CanLock(mu) == mu.w = 0 /\ mu.r = {}
CanRLock(mu) == mu.w = 0

Acquire(mu, c, exclusive) ==
    IF exclusive THEN [mu EXCEPT !.w = c] ELSE [mu EXCEPT !.r = @ \cup {c}]

Release(mu, c, exclusive) ==
    IF exclusive THEN [mu EXCEPT !.w = 0] ELSE [mu EXCEPT !.r = @ \ {c}]

\* SETsMu.Lock(), SETsMu.RLock(), HSETsMu.Lock(), HSETsMu.RLock()
Lock(c) ==
    /\ ~crashed
    /\ pc[c] = "lock"
    /\ \E command \in {Command(value[c])} :
       LET mu == IF UsesSETs(command) THEN SETsMu ELSE HSETsMu
           ex == LocksExclusive(command)
       IN  /\ IF ex THEN CanLock(mu) ELSE CanRLock(mu)
           /\ IF UsesSETs(command)
              THEN SETsMu' = Acquire(mu, c, ex) /\ HSETsMu' = HSETsMu
              ELSE HSETsMu' = Acquire(mu, c, ex) /\ SETsMu' = SETsMu
    /\ pc' = [pc EXCEPT ![c] = "body"]
    /\ UNCHANGED <<SETs, HSETs, aof, mainPc, crashed, load, reader, value, local, wire,
                   reqs, sent, appends, fails, flushPc, codecIn,
                   codecOut>>

\* The critical section of handleSet, handleGet, handleDel, handleExists,
\* handleHSet or handleHGet, its unlock, and the write of the result.
Body(c) ==
    /\ ~crashed
    /\ pc[c] = "body"
    /\ Command(value[c]) \in {"SET", "GET", "DEL", "EXISTS", "HSET", "HGET"}
    /\ \E command \in {Command(value[c])} :
       \E r \in {Handle(command, Spaces, Args(value[c]))} :
           /\ SETs' = r.S.SETs
           /\ HSETs' = r.S.HSETs
           /\ IF UsesSETs(command)
              THEN /\ SETsMu' = Release(SETsMu, c, LocksExclusive(command))
                   /\ HSETsMu' = HSETsMu
              ELSE /\ HSETsMu' = Release(HSETsMu, c, LocksExclusive(command))
                   /\ SETsMu' = SETsMu
           /\ wire' = [wire EXCEPT ![c] = Written(c, r.res, Len(reqs[c]))]
    /\ pc' = [pc EXCEPT ![c] = "read"]
    /\ UNCHANGED <<aof, mainPc, crashed, load, reader, value, local, reqs, sent,
                   appends, fails, flushPc, codecIn,
                   codecOut>>

\* handleIncr line 119: value, ok := SETs[key]
IncrLookup(c) ==
    /\ ~crashed
    /\ pc[c] = "body"
    /\ Command(value[c]) = "INCR"
    /\ local' = [local EXCEPT ![c].got = incrLookup(SETs, Args(value[c])[1].bulk)]
    /\ pc' = [pc EXCEPT ![c] = "incr"]
    /\ UNCHANGED <<SETs, HSETs, SETsMu, HSETsMu, aof, mainPc, crashed, load, reader,
                   value, wire, reqs, sent, appends, fails, flushPc, codecIn,
                   codecOut>>

\* handleIncr lines 120-133, the deferred Unlock, and the write of the result
IncrStore(c) ==
    /\ ~crashed
    /\ pc[c] = "incr"
    /\ \E st \in {incrStore(SETs, Args(value[c])[1].bulk, local[c].got)} :
           /\ SETs' = st.m
           /\ wire' = [wire EXCEPT ![c] = Written(c, st.res, Len(reqs[c]))]
    /\ SETsMu' = Release(SETsMu, c, TRUE)
    /\ local' = [local EXCEPT ![c] = NoLocal]
    /\ pc' = [pc EXCEPT ![c] = "read"]
    /\ UNCHANGED <<HSETs, HSETsMu, aof, mainPc, crashed, load, reader, value, reqs, sent,
                   appends, fails, flushPc, codecIn,
                   codecOut>>

\* handleHGetAll lines 188-194: the inner map is fetched under RLock, which
\* is released; an absent hash is answered with null.  first is the set of
\* fields the map holds now.
HGetAllRef(c) ==
    /\ ~crashed
    /\ pc[c] = "body"
    /\ Command(value[c]) = "HGETALL"
    /\ HSETsMu' = Release(HSETsMu, c, FALSE)
    /\ LET hash == Args(value[c])[1].bulk
       IN  IF hash \notin DOMAIN HSETs
           THEN /\ wire' = [wire EXCEPT ![c] = Written(c, NullValue, Len(reqs[c]))]
                /\ pc' = [pc EXCEPT ![c] = "read"]
                /\ local' = local
           ELSE /\ wire' = wire
                /\ pc' = [pc EXCEPT ![c] = "iter"]
                /\ local' = [local EXCEPT ![c] = [NoLocal EXCEPT !.first = DOMAIN HSETs[hash]]]
    /\ UNCHANGED <<SETs, HSETs, SETsMu, aof, mainPc, crashed, load, reader, value, reqs,
                   sent, appends, fails, flushPc, codecIn,
                   codecOut>>

\* handleHGetAll lines 197-200: one round of the range loop over the inner
\* map, which holds no lock: it yields a field not yet seen with the value
\* the map holds for it now.
HGetAllIter(c) ==
    /\ ~crashed
    /\ pc[c] = "iter"
    /\ LET inner == HSETs[Args(value[c])[1].bulk]
       IN  \E k \in (DOMAIN inner) \ local[c].seen :
              local' = [local EXCEPT ![c].seen = @ \cup {k},
                                     ![c].acc = @ \o <<BulkValue(k), BulkValue(inner[k])>>]
    /\ UNCHANGED <<SETs, HSETs, SETsMu, HSETsMu, aof, mainPc, crashed, load, pc, reader,
                   value, wire, reqs, sent, appends, fails, flushPc, codecIn,
                   codecOut>>

\* The range loop ends, line 202, and the result is written.  Every field
\* the map held when the loop began has been yielded; a field added during
\* the loop may have been skipped.
HGetAllDone(c) ==
    /\ ~crashed
    /\ pc[c] = "iter"
    /\ local[c].first \subseteq local[c].seen
    /\ wire' = [wire EXCEPT ![c] = Written(c, ArrayValue(local[c].acc), Len(reqs[c]))]
    /\ local' = [local EXCEPT ![c] = NoLocal]
    /\ pc' = [pc EXCEPT ![c] = "read"]
    /\ UNCHANGED <<SETs, HSETs, SETsMu, HSETsMu, aof, mainPc, crashed, load, reader,
                   value, reqs, sent, appends, fails, flushPc, codecIn,
                   codecOut>>

\* Connection d is inside handleHSet's critical section on the hash that
\* connection c ranges over.
WritesUnder(d, c) ==
    /\ d # c
    /\ pc[d] = "body"
    /\ Command(value[d]) = "HSET"
    /\ Args(value[d])[1].bulk = Args(value[c])[1].bulk

\* The Go run time finds the map written during the range loop and ends the
\* process: "fatal error: concurrent map iteration and map write".
HGetAllFatal(c) ==
    /\ ~crashed
    /\ pc[c] = "iter"
    /\ \E d \in Conns : WritesUnder(d, c)
    /\ crashed' = TRUE
    /\ UNCHANGED <<SETs, HSETs, SETsMu, HSETsMu, aof, mainPc, load, pc, reader, value,
                   local, wire, reqs, sent, appends, fails, flushPc, codecIn,
                   codecOut>>

Next ==
    \/ AofReadLock
    \/ Startup
    \/ FlushLock
    \/ FlushSync
    \/ \E c \in Conns :
          \/ ClientSend(c)
          \/ ReadRequest(c)
          \/ AofLock(c)
          \/ AofWriteOk(c)
          \/ AofWriteFail(c)
          \/ Lock(c)
          \/ Body(c)
          \/ IncrLookup(c)
          \/ IncrStore(c)
          \/ HGetAllRef(c)
          \/ HGetAllIter(c)
          \/ HGetAllDone(c)
          \/ HGetAllFatal(c)

Spec == Init /\ [][Next]_vars

(***************************************************************************)
(* The codec on its own: Marshal applied to a Value, Read applied to the   *)
(* bytes Marshal produced, and Read applied to bytes off the wire.         *)
(***************************************************************************)
\* Elements of an array value, and levels of arrays inside arrays.
MaxArray == 2

SeqsUpTo(S, n) == UNION {[1..k -> S] : k \in 0..n}

Texts == {"", "OK", "ERR x"}
Payloads == {"", "a", "a\r\nb"}
Numbers == {0, 7, 12, -3}

Scalars ==
    {StringValue(t) : t \in Texts} \cup {ErrorValue(t) : t \in Texts}
        \cup {IntegerValue(n) : n \in Numbers} \cup {BulkValue(b) : b \in Payloads}
        \cup {NullValue}

FlatArrays == {ArrayValue(a) : a \in SeqsUpTo(Scalars, MaxArray)}

\* Wire Values of the six kinds, arrays nested one level.
WireValues == Scalars \cup FlatArrays \cup {ArrayValue(<<a>>) : a \in FlatArrays}

\* Bytes off the wire: values with each marker, alone and inside an array,
\* a byte that is no marker, truncated and malformed input, and a bulk
\* string longer than the reader's buffer.
WireBytes ==
    { "+OK\r\n", "-ERR x\r\n", ":7\r\n", "x", "$1\r\na\r\n", "$0\r\n\r\n", "*0\r\n",
      "*1\r\n$1\r\na\r\n", "*1\r\n+OK\r\n", "*2\r\n$1\r\na\r\n:7\r\n", "*1\r\n*1\r\n-e\r\n",
      "*1\r\nx", "$-1\r\n", "*x\r\n", "$3\r\nab", "*2\r\n$1\r\na\r\n", "",
      "$2\r\nab\r\n$1", "$4100\r\n" \o Xs(4100) \o "\r\n" }

InitCodec ==
    /\ InitServer
    /\ \/ codecIn \in {[kind |-> "value", v |-> v] : v \in WireValues}
       \/ codecIn \in {[kind |-> "bytes", b |-> b] : b \in WireBytes}
    /\ codecOut = NoCodec

\* Value.Marshal
Encode ==
    /\ codecIn.kind = "value"
    /\ codecOut.op = "none"
    /\ codecOut' = [op |-> "marshal", bytes |-> Marshal(codecIn.v)]
    /\ UNCHANGED <<server, codecIn>>

\* RESP.Read of what Marshal produced
DecodeEncoded ==
    /\ codecOut.op = "marshal"
    /\ codecOut' = [op |-> "roundtrip", res |-> Read(NewReader(codecOut.bytes))]
    /\ UNCHANGED <<server, codecIn>>

\* RESP.Read of bytes off the wire
Decode ==
    /\ codecIn.kind = "bytes"
    /\ codecOut.op = "none"
    /\ codecOut' = [op |-> "read", res |-> Read(NewReader(codecIn.b))]
    /\ UNCHANGED <<server, codecIn>>

NextCodec == Encode \/ DecodeEncoded \/ Decode

SpecCodec == InitCodec /\ [][NextCodec]_vars

(***************************************************************************)
(* The codec's claims, under SpecCodec.                                    *)
(***************************************************************************)
RECURSIVE HasCRLF(_)
HasCRLF(s) == s # "" /\ (Head(s) \in {"\r", "\n"} \/ HasCRLF(Tail(s)))

RECURSIVE TextClean(_)
\* no CR or LF in the text of a simple string or an error, at any depth
TextClean(v) ==
    /\ v.typ \in {"string", "error"} => ~HasCRLF(v.str)
    /\ \A i \in 1..Len(v.array) : TextClean(v.array[i])

RECURSIVE HoldsDefault(_)
\* Value{} itself, or an array with Value{} somewhere inside
HoldsDefault(v) == v = ZeroValue \/ \E i \in 1..Len(v.array) : HoldsDefault(v.array[i])

Markers == {STRING_MARK, ERROR, INTEGER, BULK, ARRAY}

\* C8: for every Wire Value of the six kinds, arrays nested, whose text
\* fields hold no CR or LF, decoding the bytes its encoding produced returns,
\* with no error, a value equal to it.
C8_DecodeEncodeIsIdentity ==
    (codecOut.op = "roundtrip" /\ TextClean(codecIn.v))
        => (codecOut.res.err = "" /\ codecOut.res.val = codecIn.v)

\* C9: encoding never returns an empty buffer, and an Integer value is
\* encoded as ':' followed by the decimal number and CRLF.
C9_IntegerIsEncoded ==
    codecOut.op = "marshal"
        => /\ codecOut.bytes # ""
           /\ codecIn.v.typ = "integer"
                  => codecOut.bytes = INTEGER \o Itoa(codecIn.v.num) \o CRLF

\* C10: decoding bytes that start with a byte that is no marker fails with
\* an error, and no decoding that ends with a nil error returns the default
\* value, at top level or as an element of an array.
C10_UnknownMarkerIsAnError ==
    codecOut.op = "read"
        => /\ (codecIn.b # "" /\ Head(codecIn.b) \notin Markers) => codecOut.res.err # ""
           /\ codecOut.res.err = "" => ~HoldsDefault(codecOut.res.val)

(***************************************************************************)
(* The server's claims, under Spec.                                        *)
(***************************************************************************)
Range(f) == {f[i] : i \in DOMAIN f}

\* Connection c has nothing to do: it waits for bytes, or is closed.
Idle(c) == pc[c] \in {"read", "closed"} /\ reader[c].buf \o reader[c].src = ""

\* The accept loop runs and no connection has anything to do.
Quiescent == mainPc = "accept" /\ ~crashed /\ \A c \in Conns : Idle(c)

\* A request as the protocol defines it: a non-empty array of bulk strings.
WellFormed(v) ==
    v.typ = "array" /\ Len(v.array) > 0 /\ \A i \in 1..Len(v.array) : v.array[i].typ = "bulk"

MutatingSet == {"SET", "DEL", "HSET", "INCR"}
ReadOnlySet == {"PING", "GET", "EXISTS", "HGET", "HGETALL"}

Mutating(v) == WellFormed(v) /\ Command(v) \in MutatingSet

\* Every request decoded so far is a mutating command and every append succeeded.
OnlyMutating == fails = 0 /\ \A c \in Conns : \A i \in 1..Len(reqs[c]) : Mutating(reqs[c][i])

\* C1: after any sequence of mutating commands of a single client, run
\* from empty key spaces, replaying the log into empty key spaces gives the
\* scalar space and the hash space of the live execution.
C1_ReplayEqualsLive ==
    (Quiescent /\ OnlyMutating /\ \A c \in Conns : c # 1 => sent[c] = 0)
        => Replay(aof.file).S = Spaces

\* C2: with several connections writing, mutating commands that touch the
\* same key are logged in the order they are applied, so that replaying the
\* log gives the live key spaces.  (A log that fits the reader's buffer:
\* the short read of a larger one is C1's matter.)
C2_LogOrderIsApplyOrder ==
    (Quiescent /\ OnlyMutating /\ Len(aof.file) <= BufSize)
        => Replay(aof.file).S = Spaces

InternalError == ErrorValue("ERR internal server error")

RECURSIVE LogUpTo(_)
\* The records of the first i successful appends, one after the other.
LogUpTo(i) ==
    IF i = 0 THEN ""
    ELSE LogUpTo(i - 1) \o Marshal(reqs[appends[i].conn][appends[i].req])

\* C3: a SET, DEL, HSET or INCR request is appended to the log before its
\* handler is invoked and before its response is sent, and a request with
\* any other command adds no record: the log is the requests with a
\* mutating command, in the order of their appends.
C3_WriteCommandsAreLoggedFirst ==
    /\ \A c \in Conns :
          (pc[c] \in {"lock", "body", "incr", "iter"} /\ Command(value[c]) \in MutatingSet)
              => [conn |-> c, req |-> Len(reqs[c])] \in Range(appends)
    /\ \A c \in Conns : \A i \in 1..Len(wire[c]) :
          (Mutating(reqs[c][wire[c][i].req]) /\ wire[c][i].val # InternalError)
              => [conn |-> c, req |-> wire[c][i].req] \in Range(appends)
    /\ \A i \in 1..Len(appends) : Mutating(reqs[appends[i].conn][appends[i].req])
    /\ fails = 0 => aof.file = LogUpTo(Len(appends))

\* A SET was logged and answered, a read-only command was answered, and the
\* log holds the SET alone.
C3_Witness ==
    \E c \in Conns :
        /\ Len(wire[c]) = 2
        /\ Mutating(reqs[c][1])
        /\ wire[c][1].val = StringValue("OK")
        /\ WellFormed(reqs[c][2])
        /\ Command(reqs[c][2]) \in ReadOnlySet
        /\ Len(appends) = 1
        /\ aof.file = Marshal(reqs[c][1])

\* C4: when the append of a mutating command fails, the connection is
\* answered "ERR internal server error" and nothing else, the handler is
\* not invoked, the key spaces are as before, and the connection is back
\* at the head of its loop for later requests.
C4_FailedAppendSkipsCommand ==
    [][fails' > fails =>
          /\ SETs' = SETs
          /\ HSETs' = HSETs
          /\ \E c \in Conns :
                /\ pc[c] = "aof_write"
                /\ pc' = [pc EXCEPT ![c] = "read"]
                /\ wire' = [wire EXCEPT ![c] =
                               Append(@, [val |-> InternalError,
                                          bytes |-> "-ERR internal server error\r\n",
                                          req |-> Len(reqs[c])])]]_vars

\* An append failed, and the same connection was served its next request.
C4_Witness ==
    /\ fails > 0
    /\ \E c \in Conns :
          /\ Len(wire[c]) = 2
          /\ wire[c][1].val = InternalError
          /\ wire[c][2].val = StringValue("OK")
          /\ wire[c][2].req = 2
          /\ SETs # EmptyMap

IncrK == ArrayValue(<<BulkValue("INCR"), BulkValue("k")>>)

\* Every request decoded so far is INCR k, and every append succeeded.
OnlyIncr == fails = 0 /\ \A c \in Conns : \A i \in 1..Len(reqs[c]) : reqs[c][i] = IncrK

Answers == UNION {{<<c, i>> : i \in 1..Len(wire[c])} : c \in Conns}

\* C5: n INCRs of a key that was absent, from any number of connections
\* and interleaved in any way, leave the decimal text of n under the key,
\* and the integers they return are 1..n, each once.
C5_IncrCountsEveryCall ==
    (Quiescent /\ OnlyIncr) =>
        LET n == Cardinality(Answers)
        IN  /\ \A c \in Conns : Len(wire[c]) = Len(reqs[c])
            /\ \A a \in Answers : wire[a[1]][a[2]].val.typ = "integer"
            /\ {wire[a[1]][a[2]].val.num : a \in Answers} = 1..n
            /\ n > 0 => SETs = ("k" :> Itoa(n))

\* Every connection had all its INCRs served.
C5_Witness ==
    /\ Quiescent
    /\ OnlyIncr
    /\ \A c \in Conns : Len(wire[c]) = MaxReq
    /\ SETs = ("k" :> Itoa(NumConns * MaxReq))

\* C6: a command is atomic with respect to the key space it touches:
\* HGETALL never reads the fields of a hash while an HSET is writing that
\* hash.
C6_HGetAllExcludesHSet ==
    \A c \in Conns : pc[c] = "iter" => \A d \in Conns : ~WritesUnder(d, c)

\* C7: on a connection every decoded request gets one response, which is
\* not empty, and the responses come in the order of the requests.
C7_OneResponsePerRequest ==
    \A c \in Conns :
        /\ Len(wire[c]) <= Len(reqs[c])
        /\ \A i \in 1..Len(wire[c]) : wire[c][i].req = i /\ wire[c][i].bytes # ""
        /\ (Idle(c) /\ ~crashed) => Len(wire[c]) = Len(reqs[c])

(***************************************************************************)
(* The server started on a log that is already there, under SpecBoot.      *)
(***************************************************************************)
\* Logs found at start: whole is the records that are complete and sound,
\* rest is what follows them: nothing, the head of a record cut short, or
\* bytes that are no record.
BootLogs ==
    LET setA == Request(<<"SET", "k", "a">>)
        hset == Request(<<"HSET", "h", "f", "a">>)
        long == Request(<<"SET", "k", Xs(BigLen)>>)
    IN  { [whole |-> "", rest |-> ""],
          [whole |-> setA, rest |-> ""],
          [whole |-> setA \o hset, rest |-> ""],
          [whole |-> setA, rest |-> SubSeq(hset, 1, 10)],
          [whole |-> hset, rest |-> "*3\r\n$3\r\nSET\r\n$1\r\nk\r\n$5\r\nab"],
          [whole |-> setA, rest |-> "*x\r\n" \o hset],
          [whole |-> "", rest |-> "+OK\r\n" \o setA],
          [whole |-> hset, rest |-> "*0\r\n"],
          [whole |-> "", rest |-> "*x\r\n" \o long \o setA] }

\* Two clients that set and get a key.
BootWorkloads ==
    { [conns |-> {1, 2}, faults |-> 0,
       msgs |-> {Request(<<"SET", "k", "b">>), Request(<<"GET", "k">>)},
       whole |-> l.whole, rest |-> l.rest] : l \in BootLogs }

\* main up to aof.Read, database.aof holding the log of the workload.
InitBoot ==
    /\ SETs = EmptyMap
    /\ HSETs = EmptyMap
    /\ SETsMu = FreeMu
    /\ HSETsMu = FreeMu
    /\ load \in BootWorkloads
    /\ aof = [file |-> load.whole \o load.rest, pos |-> 0, mu |-> 0, closed |-> FALSE]
    /\ mainPc = "start"
    /\ flushPc = "sleep"
    /\ crashed = FALSE
    /\ pc = [c \in Conns |-> "read"]
    /\ reader = [c \in Conns |-> NewReader("")]
    /\ value = [c \in Conns |-> ZeroValue]
    /\ local = [c \in Conns |-> NoLocal]
    /\ wire = [c \in Conns |-> <<>>]
    /\ reqs = [c \in Conns |-> <<>>]
    /\ sent = [c \in Conns |-> 0]
    /\ appends = <<>>
    /\ fails = 0
    /\ codecIn = NoCodec
    /\ codecOut = NoCodec

NextBoot ==
    \/ AofReadLock
    \/ Startup
    \/ CloseLock
    \/ Close
    \/ Exit
    \/ FlushLock
    \/ FlushSync
    \/ \E c \in Conns :
          \/ ClientSend(c)
          \/ ReadRequest(c)
          \/ AofLock(c)
          \/ AofWriteOk(c)
          \/ Lock(c)
          \/ Body(c)

SpecBoot == InitBoot /\ [][NextBoot]_vars

\* Startup is over and no client has sent anything.
Started == mainPc \in {"accept", "exit"} /\ \A c \in Conns : sent[c] = 0

\* C11: replay of a log that ends at a record boundary ends normally, with
\* its records applied; replay of a log that is cut short or corrupt inside
\* a record is fatal: nothing of the damaged record is applied, and the
\* server does not go on to accept connections.
C11_DamagedLogStopsStartup ==
    /\ (Started /\ load.rest = "")
           => (mainPc = "accept" /\ ~crashed /\ Spaces = Replay(load.whole).S)
    /\ (Started /\ load.rest # "")
           => (crashed /\ Spaces = Replay(load.whole).S)

(***************************************************************************)
(* The handlers called one after the other by one caller, under SpecCall.  *)
(* codecIn holds the calls, codecOut the key spaces before the first call  *)
(* and after each call, and the results.                                   *)
(***************************************************************************)
MaxSetup == 2

\* handler(args) with args the bulk strings of a request
Call(command, args) ==
    [command |-> command, args |-> [i \in 1..Len(args) |-> BulkValue(args[i])]]

\* Calls that change the key spaces.
SetupMenu ==
    { Call("SET", <<"k", "a">>), Call("SET", <<"k", "7">>), Call("SET", <<"k", "-3">>),
      Call("SET", <<"k", "">>), Call("SET", <<"k", "1a">>), Call("INCR", <<"k">>),
      Call("DEL", <<"k">>), Call("HSET", <<"h", "f", "a">>), Call("HSET", <<"h", "f", "b">>),
      Call("HSET", <<"h", "g", "b">>) }

\* Calls that read, and calls with too few and too many arguments.
CallMenu ==
    SetupMenu \cup
    { Call("GET", <<"k">>), Call("EXISTS", <<"k", "j">>), Call("DEL", <<"k", "j">>),
      Call("HGET", <<"h", "f">>), Call("HGET", <<"h", "g">>), Call("HGET", <<"j", "f">>),
      Call("HGETALL", <<"h">>), Call("HGETALL", <<"j">>),
      Call("SET", <<"k">>), Call("SET", <<"k", "a", "b">>), Call("GET", <<>>),
      Call("GET", <<"k", "j">>), Call("DEL", <<>>), Call("EXISTS", <<>>),
      Call("INCR", <<>>), Call("INCR", <<"k", "j">>), Call("HSET", <<"h", "f">>),
      Call("HSET", <<"h", "f", "a", "b">>), Call("HGET", <<"h">>),
      Call("HGET", <<"h", "f", "g">>), Call("HGETALL", <<>>), Call("HGETALL", <<"h", "j">>) }

InitCall ==
    /\ InitServer
    /\ \E setup \in SeqsUpTo(SetupMenu, MaxSetup) : \E last \in CallMenu :
           codecIn = [kind |-> "calls", cmds |-> Append(setup, last)]
    /\ codecOut = [op |-> "calls", Ss |-> <<EmptySpaces>>, res |-> <<>>]

\* The call that is next, if any is left.
CallsLeft == Len(codecOut.res) < Len(codecIn.cmds)
TheCall == codecIn.cmds[Len(codecOut.res) + 1]
NowSpaces == codecOut.Ss[Len(codecOut.Ss)]

\* handleHGetAll reaches its range loop: one argument, and the hash is there.
Ranges(call, S) ==
    call.command = "HGETALL" /\ Len(call.args) = 1 /\ call.args[1].bulk \in DOMAIN S.HSETs

\* The orders in which a range loop can yield the keys D of a map.
Orders(D) == {o \in [1..Cardinality(D) -> D] : \A i, j \in DOMAIN o : o[i] = o[j] => i = j}

\* handleHGetAll lines 196-202: the pairs of the map, in the order of the loop.
Flatten(inner, o) ==
    ArrayValue([i \in 1..(2 * Len(o)) |->
                   IF i % 2 = 1 THEN BulkValue(o[(i + 1) \div 2])
                   ELSE BulkValue(inner[o[i \div 2]])])

\* A handler is called and returns.
CallHandler ==
    /\ codecOut.op = "calls"
    /\ CallsLeft
    /\ ~Ranges(TheCall, NowSpaces)
    /\ \E r \in {Handle(TheCall.command, NowSpaces, TheCall.args)} :
           codecOut' = [codecOut EXCEPT !.Ss = Append(@, r.S), !.res = Append(@, r.res)]
    /\ UNCHANGED <<server, codecIn>>

\* handleHGetAll is called on a hash that is there: the range loop yields
\* the fields in an order of its own.
CallHGetAll ==
    /\ codecOut.op = "calls"
    /\ CallsLeft
    /\ Ranges(TheCall, NowSpaces)
    /\ \E o \in Orders(DOMAIN NowSpaces.HSETs[TheCall.args[1].bulk]) :
           codecOut' = [codecOut EXCEPT
                           !.Ss = Append(@, NowSpaces),
                           !.res = Append(@, Flatten(NowSpaces.HSETs[TheCall.args[1].bulk], o))]
    /\ UNCHANGED <<server, codecIn>>

NextCalls == CallHandler \/ CallHGetAll

SpecCall == InitCall /\ [][NextCalls]_vars

\* The arities of the commands: DEL and EXISTS take one key or more.
RightArity(call) ==
    CASE call.command = "SET" -> Len(call.args) = 2
      [] call.command \in {"GET", "INCR", "HGETALL"} -> Len(call.args) = 1
      [] call.command \in {"DEL", "EXISTS"} -> Len(call.args) >= 1
      [] call.command = "HSET" -> Len(call.args) = 3
      [] call.command = "HGET" -> Len(call.args) = 2

\* <cmd> in the text of the error
ErrorName(command) ==
    CASE command = "SET" -> "set" [] command = "GET" -> "get" [] command = "DEL" -> "del"
      [] command = "EXISTS" -> "exists" [] command = "INCR" -> "incr"
      [] command = "HSET" -> "hset" [] command = "HGET" -> "hget"
      [] command = "HGETALL" -> "hgetall"

\* The calls made so far, by number.
Made == 1..Len(codecOut.res)

\* C12: a call of SET, GET, DEL, EXISTS, INCR, HSET, HGET or HGETALL with
\* a wrong number of arguments leaves both key spaces as they were and
\* returns the Error "ERR wrong number of arguments for '<cmd>' command".
C12_WrongArityChangesNothing ==
    codecOut.op = "calls" =>
        \A i \in Made :
            ~RightArity(codecIn.cmds[i]) =>
                /\ codecOut.Ss[i + 1] = codecOut.Ss[i]
                /\ codecOut.res[i] =
                       ErrorValue("ERR wrong number of arguments for '"
                                      \o ErrorName(codecIn.cmds[i].command) \o "' command")

\* A call with a wrong number of arguments was made on key spaces that
\* hold a key and a hash.
C12_Witness ==
    /\ codecOut.op = "calls"
    /\ Len(codecOut.res) = 3
    /\ ~RightArity(codecIn.cmds[3])
    /\ codecOut.res[3].typ = "error"
    /\ codecOut.Ss[4].SETs # EmptyMap
    /\ codecOut.Ss[4].HSETs # EmptyMap

\* The stored texts of the calls that are no base-10 integer.
NotIntegers == {"a", "", "1a"}

\* Call i is INCR of a key that holds a text that is no integer.
IncrOfText(i) ==
    LET call == codecIn.cmds[i]
        S == codecOut.Ss[i]
    IN  /\ call.command = "INCR"
        /\ Len(call.args) = 1
        /\ call.args[1].bulk \in DOMAIN S.SETs
        /\ S.SETs[call.args[1].bulk] \in NotIntegers

\* C13: INCR of a key whose value is no base-10 integer returns the Error
\* "ERR value is not an integer" and leaves that key and every other key of
\* both key spaces as they were.
C13_IncrOfTextChangesNothing ==
    codecOut.op = "calls" =>
        \A i \in Made :
            IncrOfText(i) =>
                /\ codecOut.res[i] = ErrorValue("ERR value is not an integer")
                /\ codecOut.Ss[i + 1] = codecOut.Ss[i]

\* INCR was called on a key holding "1a", with a hash set beside it.
C13_Witness ==
    /\ codecOut.op = "calls"
    /\ Len(codecOut.res) = 3
    /\ IncrOfText(3)
    /\ codecOut.Ss[4].SETs = ("k" :> "1a")
    /\ codecOut.Ss[4].HSETs # EmptyMap

\* The HSET calls on hash made before call i, by number.
HSetsBefore(i, hash) ==
    {j \in 1..(i - 1) : /\ codecIn.cmds[j].command = "HSET"
                        /\ Len(codecIn.cmds[j].args) = 3
                        /\ codecIn.cmds[j].args[1].bulk = hash}

\* The fields they set, and the value the last of them gave a field.
FieldsBefore(i, hash) == {codecIn.cmds[j].args[2].bulk : j \in HSetsBefore(i, hash)}

LastValue(i, hash, field) ==
    LET J == {j \in HSetsBefore(i, hash) : codecIn.cmds[j].args[2].bulk = field}
    IN  codecIn.cmds[CHOOSE j \in J : \A k \in J : k <= j].args[3].bulk

\* r is a flattened sequence of exactly the pairs set in hash before call
\* i, each once.
IsPairsOf(r, i, hash) ==
    LET n == Cardinality(FieldsBefore(i, hash))
    IN  /\ r.typ = "array"
        /\ Len(r.array) = 2 * n
        /\ \A f \in FieldsBefore(i, hash) :
               Cardinality({p \in 1..n : r.array[2 * p - 1] = BulkValue(f)}) = 1
        /\ \A p \in 1..n :
               /\ r.array[2 * p - 1].typ = "bulk"
               /\ r.array[2 * p - 1].bulk \in FieldsBefore(i, hash)
               /\ r.array[2 * p] = BulkValue(LastValue(i, hash, r.array[2 * p - 1].bulk))

\* C14: after any HSET calls, HGET h f returns the value of the last HSET
\* h f and Null if there was none; HGETALL h returns a flattened sequence
\* of exactly the pairs now set in h, each once, and Null for a hash never
\* set.
C14_HashReadsSeeTheHSets ==
    codecOut.op = "calls" =>
        \A i \in Made :
            LET call == codecIn.cmds[i]
                r == codecOut.res[i]
            IN  /\ (call.command = "HGET" /\ Len(call.args) = 2) =>
                       r = IF call.args[2].bulk \in FieldsBefore(i, call.args[1].bulk)
                           THEN BulkValue(LastValue(i, call.args[1].bulk, call.args[2].bulk))
                           ELSE NullValue
                /\ (call.command = "HGETALL" /\ Len(call.args) = 1) =>
                       IF HSetsBefore(i, call.args[1].bulk) = {}
                       THEN r = NullValue
                       ELSE IsPairsOf(r, i, call.args[1].bulk)

\* Two fields were set and HGETALL gave both pairs, the later field first.
C14_Witness ==
    /\ codecOut.op = "calls"
    /\ Len(codecOut.res) = 3
    /\ codecIn.cmds[1] = Call("HSET", <<"h", "f", "a">>)
    /\ codecIn.cmds[2] = Call("HSET", <<"h", "g", "b">>)
    /\ codecIn.cmds[3] = Call("HGETALL", <<"h">>)
    /\ codecOut.res[3] = ArrayValue(<<BulkValue("g"), BulkValue("b"),
                                      BulkValue("f"), BulkValue("a")>>)

\* C15: the log is append-only: after NewAOF, replay (successful or
\* aborted) and appends, every step leaves the log content it found as a
\* prefix of the log content it leaves, so no written record is overwritten.
C15_LogIsAppendOnly ==
    [][/\ Len(aof.file') >= Len(aof.file)
       /\ SubSeq(aof.file', 1, Len(aof.file)) = aof.file]_vars

RECURSIVE UpToCR(_)
\* the bytes of s before its first CR
UpToCR(s) == IF s = "" \/ Head(s) = "\r" THEN "" ELSE <<Head(s)>> \o UpToCR(Tail(s))

\* b is a bulk string on the wire: '$', a decimal length, CRLF, and what
\* the stream supplies after them.
IsBulkOnWire(b) ==
    /\ Len(b) >= 4
    /\ Head(b) = "$"
    /\ UpToCR(Tail(b)) # ""
    /\ AllDigits(UpToCR(Tail(b)))
    /\ Len(b) >= Len(UpToCR(Tail(b))) + 3
    /\ SubSeq(b, Len(UpToCR(Tail(b))) + 2, Len(UpToCR(Tail(b))) + 3) = "\r\n"

DeclaredLen(b) == NatVal(UpToCR(Tail(b)), 0)

Supplied(b) == SubSeq(b, Len(UpToCR(Tail(b))) + 4, Len(b))

\* C16: decoding a bulk string of declared length L returns exactly the
\* next L bytes of the stream and consumes the CRLF after them; when the
\* stream supplies fewer than L bytes, decoding fails with an error.
C16_BulkIsExactlyLBytes ==
    (codecOut.op = "read" /\ IsBulkOnWire(codecIn.b)) =>
        IF Len(Supplied(codecIn.b)) >= DeclaredLen(codecIn.b) + 2
        THEN /\ codecOut.res.err = ""
             /\ codecOut.res.val = BulkValue(SubSeq(Supplied(codecIn.b), 1, DeclaredLen(codecIn.b)))
             /\ codecOut.res.rd.buf \o codecOut.res.rd.src
                    = SubSeq(Supplied(codecIn.b), DeclaredLen(codecIn.b) + 3,
                             Len(Supplied(codecIn.b)))
        ELSE codecOut.res.err # ""

\* C17: replay leaves the log content unchanged: the commands it applies
\* go through the handlers only and nothing is appended while it runs, so
\* the log after replay equals the log before it.
C17_ReplayLeavesTheLog ==
    [][(mainPc = "replay" /\ mainPc' # "replay")
           => (aof.file' = aof.file /\ appends' = appends)]_vars

\* Replay has applied two records to the key spaces and the log is the one
\* the server started on.
C17_Witness ==
    /\ Started
    /\ load.whole = Request(<<"SET", "k", "a">>) \o Request(<<"HSET", "h", "f", "a">>)
    /\ SETs = ("k" :> "a")
    /\ HSETs = ("h" :> ("f" :> "a"))
    /\ aof.file = load.whole
    /\ appends = <<>>

\* C18: the periodic flush belongs to the log's lifecycle and is stopped by
\* Close: once Close has returned, the background goroutine performs no
\* flush on the closed file.
C18_NoFlushAfterClose ==
    [][(flushPc = "sync" /\ flushPc' = "sleep") => ~aof.closed]_vars

\* The goroutines that are inside Append (AOF.Write), the periodic flush,
\* Close or Replay (AOF.Read), past the Lock and before the Unlock.
OnTheFile ==
    {c \in Conns : pc[c] = "aof_write"}
        \cup (IF flushPc = "sync" THEN {Flusher} ELSE {})
        \cup (IF mainPc \in {"replay", "closing"} THEN {Main} ELSE {})

\* C19: Append, the periodic flush, Close and Replay exclude one another on
\* the log: at most one of them is on the file and it is the one holding
\* aof.mu, so the appended records are never interleaved: each lies whole
\* in the log, one after the other in the order of the appends.
C19_OneAtATimeOnTheLog ==
    /\ Cardinality(OnTheFile) <= 1
    /\ OnTheFile = (IF aof.mu = 0 THEN {} ELSE {aof.mu})
    /\ aof.pos >= Len(LogUpTo(Len(appends)))
    /\ SubSeq(aof.file, aof.pos - Len(LogUpTo(Len(appends))) + 1, aof.pos)
           = LogUpTo(Len(appends))

\* Both connections have appended a record after a replay, one is inside
\* Append again, and the other and the flush wait for aof.mu.
C19_Witness ==
    /\ load.whole # ""
    /\ {a.conn : a \in Range(appends)} = {1, 2}
    /\ pc[1] = "aof_write"
    /\ pc[2] = "aof"
    /\ flushPc = "sleep"
    /\ aof.mu = 1

(***************************************************************************)
(* The server under fair scheduling.  The Go scheduler runs every goroutine *)
(* that can take a step, which is weak fairness of each step of each        *)
(* goroutine.  A goroutine waiting in Lock or RLock gets the mutex: a       *)
(* sync.Mutex whose waiter has waited for 1ms is handed over to it in       *)
(* turn, and a waiting Lock of a sync.RWMutex keeps new readers out, which  *)
(* is strong fairness of the steps that take a mutex.  The clients and the  *)
(* run time's fatal error are under no obligation.  The runs have two       *)
(* connections, no failing write to the file, and a log to start on.        *)
(***************************************************************************)
FairWorkloads ==
    { [conns |-> {1, 2}, faults |-> 0, msgs |-> {Request(<<"INCR", "k">>)},
       whole |-> Request(<<"SET", "k", "7">>), rest |-> ""],
      [conns |-> {1, 2}, faults |-> 0,
       msgs |-> {Request(<<"HSET", "h", "g", "b">>), Request(<<"HGETALL", "h">>)},
       whole |-> Request(<<"HSET", "h", "f", "a">>), rest |-> ""] }

InitFair ==
    /\ SETs = EmptyMap
    /\ HSETs = EmptyMap
    /\ SETsMu = FreeMu
    /\ HSETsMu = FreeMu
    /\ load \in FairWorkloads
    /\ aof = [file |-> load.whole \o load.rest, pos |-> 0, mu |-> 0, closed |-> FALSE]
    /\ mainPc = "start"
    /\ flushPc = "sleep"
    /\ crashed = FALSE
    /\ pc = [c \in Conns |-> "read"]
    /\ reader = [c \in Conns |-> NewReader("")]
    /\ value = [c \in Conns |-> ZeroValue]
    /\ local = [c \in Conns |-> NoLocal]
    /\ wire = [c \in Conns |-> <<>>]
    /\ reqs = [c \in Conns |-> <<>>]
    /\ sent = [c \in Conns |-> 0]
    /\ appends = <<>>
    /\ fails = 0
    /\ codecIn = NoCodec
    /\ codecOut = NoCodec

\* a step of handleClient on connection c that waits for no mutex
Step(c) ==
    \/ ReadRequest(c)
    \/ AofWriteOk(c)
    \/ Body(c)
    \/ IncrLookup(c)
    \/ IncrStore(c)
    \/ HGetAllRef(c)
    \/ HGetAllIter(c)
    \/ HGetAllDone(c)

NextFair ==
    \/ AofReadLock
    \/ Startup
    \/ FlushLock
    \/ FlushSync
    \/ \E c \in Conns :
          \/ ClientSend(c)
          \/ AofLock(c)
          \/ Lock(c)
          \/ Step(c)
          \/ HGetAllFatal(c)

Fairness ==
    /\ SF_vars(AofReadLock)
    /\ WF_vars(Startup)
    /\ WF_vars(FlushSync)
    /\ \A c \in Conns :
          /\ WF_vars(Step(c))
          /\ SF_vars(AofLock(c))
          /\ SF_vars(Lock(c))

SpecFair == InitFair /\ [][NextFair]_vars /\ Fairness

\* The mutexes goroutine w holds, of SETsMu, HSETsMu and aof.mu.
Held(w) ==
    (IF SETsMu.w = w \/ w \in SETsMu.r THEN {"SETsMu"} ELSE {})
        \cup (IF HSETsMu.w = w \/ w \in HSETsMu.r THEN {"HSETsMu"} ELSE {})
        \cup (IF aof.mu = w THEN {"aof.mu"} ELSE {})

OneLockEach == \A w \in Conns \cup {Flusher, Main} : Cardinality(Held(w)) <= 1

\* Connection c has decoded a request whose result is not yet written.
Serving(c) == pc[c] \notin {"read", "closed"}

\* C20: no goroutine ever holds more than one of SETsMu, HSETsMu and aof.mu,
\* so the handlers and the flush cannot deadlock, and under fair scheduling
\* every request that was decoded gets its result in the end.
C20_EveryCommandReturns ==
    /\ []OneLockEach
    /\ \A c \in Conns : Serving(c) ~> ~Serving(c)

=============================================================================
